---- MODULE Spec2Model ----
(***************************************************************************)
(* Model of LiveSurgeryService (src/app/services/live_surgery.py): the     *)
(* frame chunker, the chunk queue and its worker task(s), the cumulative   *)
(* step tracker, the alert path and the session lifecycle.                 *)
(*                                                                         *)
(* Scheduling is asyncio's: one event loop, and a coroutine runs without   *)
(* interruption from one real suspension point to the next.  Each action   *)
(* below is one such uninterrupted segment.  GeminiClient.                 *)
(* analyze_video_chunk is declared async but calls the synchronous         *)
(* client.models.generate_content, so the oracle round trip does not       *)
(* suspend: while it lasts the event loop itself is blocked (LoopBlocked). *)
(***************************************************************************)
EXTENDS Integers, Sequences, FiniteSets, TLC

(* ------------------------------------------------------------------ *)
(* Program constants                                                 *)
(* ------------------------------------------------------------------ *)
chunk_size == 7
chunk_overlap == 2
\* asyncio.Queue() is built with the default maxsize, 0: unbounded.
queue_maxsize == 0
history_limit == 10
\* Lines 466-468: the detections kept per step.
history_keep == 3

(* ------------------------------------------------------------------ *)
(* Bounds of the model                                               *)
(* ------------------------------------------------------------------ *)
\* frames ingested by process_frame
MaxFrames == 12
\* frames ingested when only the chunker is exercised (SpecIngest)
MaxIngestFrames == 14
\* calls of start_session and stop_session, together
MaxCalls == 3
\* steps of the master procedure stored in the database
NSteps == 5

VARIABLES
    \* fields of LiveSurgeryService
    master_procedure,           \* TRUE when a procedure document is held
    procedure_steps,            \* list of steps, <<>> until loaded
    current_step_index,
    session_doc_id,             \* 0 is None, else the index of the document
    alert_callback,             \* TRUE when a callback is stored
    analysis_callback,
    chunk_history,              \* number of analyses kept (at most 10)
    detected_steps_cumulative,
    step_status,                \* dict: step index -> status
    step_detection_history,     \* dict: step index -> number of replies kept
    chunk_log,                  \* chunk_history: the chunk of each reply kept
    step_log,                   \* step_detection_history: the same, per step
    frame_buffer,
    frame_count,
    chunk_queue,
    is_processing_chunks,
    chunk_task,                 \* 0 is None, else the id of the task
    \* the asyncio tasks running _process_chunk_queue
    taskPc,                     \* task id -> where the task is suspended
    cur,                        \* task id -> the chunk and analysis in hand
    \* the collaborators
    live_sessions,              \* LIVE_SESSIONS collection
    session_alerts,             \* SESSION_ALERTS collection
    alerts_sent,                \* batches handed to the alert callback
    \* calls of start_session and stop_session in progress
    startPc, stopPc, stopTask, stopDoc,
    startResult,                \* how the last finished start_session ended
    last_error,                 \* the last error event the worker logged
    \* history variables, read by the properties only
    removedCnt,                 \* end_frame -> times taken off the queue
    analysedCnt,                \* end_frame -> times given to _analyze_video_chunk
    clearedAt,                  \* frame_count at stop_session's last clean-up
    nCalls,
    \* the reply parsers on their own
    response_text,              \* a reply text, as a sequence of tokens
    parsed_fields               \* what lines 438-441 read from it

vars == << master_procedure, procedure_steps, current_step_index, session_doc_id, alert_callback,
           analysis_callback, chunk_history, detected_steps_cumulative,
           step_status, step_detection_history, frame_buffer, frame_count,
           chunk_queue,
           is_processing_chunks, chunk_task, taskPc, cur, live_sessions,
           session_alerts, alerts_sent, startPc, stopPc, stopTask, stopDoc,
           startResult, last_error, removedCnt, analysedCnt, clearedAt,
           nCalls, response_text, parsed_fields, chunk_log, step_log >>

serviceVars == << master_procedure, procedure_steps, current_step_index, session_doc_id,
                  alert_callback, analysis_callback >>
trackerVars == << detected_steps_cumulative, step_status,
                 step_detection_history >>
ingestVars == << frame_buffer, frame_count >>
storeVars == << live_sessions, session_alerts, alerts_sent >>
startVars == << startPc, startResult >>
stopVars == << stopPc, stopTask, stopDoc, clearedAt >>
parserVars == << response_text, parsed_fields >>
historyVars == << chunk_log, step_log >>

Tasks == 1..MaxCalls

(* ------------------------------------------------------------------ *)
(* The master procedure in the database and the oracle's replies     *)
(* ------------------------------------------------------------------ *)
MasterSteps ==
    [i \in 1..NSteps |-> [step_number |-> i, is_critical |-> (i % 2 = 1)]]

\* A reply is free text; the model keeps what the service reads from it:
\* the number after "Detected Step:" (no element when the label is absent),
\* whether it contains "matches expected: yes", and whether it contains one
\* of the safety keywords.
Analyses ==
    [detected_step : {{}} \cup {{n} : n \in 0..(NSteps + 1)},
     matches_yes : BOOLEAN,
     concern : BOOLEAN]

NoStep == [step_number |-> 0, is_critical |-> FALSE]
\* No analysis_data has been built for the chunk.
NoSnapshot == [frame_count |-> 0, current_step_index |-> -1]
Idle == [chunk |-> 0, expected |-> NoStep, alerts |-> << >>,
         snapshot |-> NoSnapshot]

SetMin(S) == CHOOSE x \in S : \A y \in S : x <= y

\* Line 503: await self._create_missed_step_alert(i).  The class has no
\* attribute of that name (the method at lines 980-1001 is
\* _generate_missed_step_alert), so the expression raises AttributeError
\* before any alert is built.
_create_missed_step_alert(i) == [raised |-> TRUE, alerts |-> << >>]

(* ------------------------------------------------------------------ *)
(* Initial state: __init__                                            *)
(* ------------------------------------------------------------------ *)
\* The fields of a service as __init__ leaves them.
Constructed ==
    /\ master_procedure = FALSE
    /\ procedure_steps = << >>
    /\ current_step_index = 0
    /\ session_doc_id = 0
    /\ alert_callback = FALSE
    /\ analysis_callback = FALSE
    /\ chunk_history = 0
    /\ detected_steps_cumulative = {}
    /\ step_status = << >>
    /\ step_detection_history = << >>
    /\ chunk_log = << >>
    /\ step_log = << >>
    /\ frame_buffer = << >>
    /\ frame_count = 0
    /\ chunk_queue = << >>
    /\ is_processing_chunks = FALSE
    /\ chunk_task = 0
    /\ taskPc = [t \in Tasks |-> "none"]
    /\ cur = [t \in Tasks |-> Idle]
    /\ live_sessions = << >>
    /\ session_alerts = << >>
    /\ alerts_sent = 0
    /\ startPc = "idle"
    /\ startResult = "none"
    /\ last_error = "none"
    /\ stopPc = "idle"
    /\ stopTask = 0
    /\ stopDoc = 0
    /\ removedCnt = << >>
    /\ analysedCnt = << >>
    /\ clearedAt = 0
    /\ nCalls = 0

Init ==
    /\ Constructed
    /\ response_text = << >>
    /\ parsed_fields = {}

(* ------------------------------------------------------------------ *)
(* The event loop                                                     *)
(* ------------------------------------------------------------------ *)
\* A faulty loop: the oracle call would yield to the other coroutines.
LoopNeverBlocked == FALSE

\* A task inside the synchronous generate_content call holds the only
\* thread of the event loop: nothing else runs until the call returns.
LoopBlocked == \E t \in Tasks : taskPc[t] = "oracle"

(* ------------------------------------------------------------------ *)
(* process_frame                                                      *)
(* ------------------------------------------------------------------ *)
\* asyncio.Queue.full()
QueueFull(q) == IF queue_maxsize <= 0 THEN FALSE ELSE Len(q) >= queue_maxsize

\* A faulty retraction: the whole chunk is dropped, no overlap is kept.
KeepNoOverlap(buf) == SubSeq(buf, chunk_size + 1, Len(buf))

\* A faulty retraction: the buffer is left as it is.
KeepWholeBuffer(buf) == buf

\* self.frame_buffer[self.chunk_size - self.chunk_overlap:]
KeepOverlap(buf) == SubSeq(buf, chunk_size - chunk_overlap + 1, Len(buf))

ProcessFrame(limit) ==
    /\ ~LoopBlocked
    /\ frame_count < limit
    /\ LET fc == frame_count + 1
           buf == Append(frame_buffer, fc)
           chunk_frames == SubSeq(buf, 1, chunk_size)
           chunk == [frames |-> chunk_frames,
                     start_frame |-> fc - Len(chunk_frames) + 1,
                     end_frame |-> fc]
       IN  /\ frame_count' = fc
           /\ IF Len(buf) >= chunk_size
              THEN /\ ~QueueFull(chunk_queue)
                   /\ chunk_queue' = Append(chunk_queue, chunk)
                   /\ frame_buffer' = KeepOverlap(buf)
              ELSE /\ frame_buffer' = buf
                   /\ UNCHANGED chunk_queue
    /\ UNCHANGED << last_error,
                    serviceVars, chunk_history, trackerVars,
                    is_processing_chunks, chunk_task, taskPc, cur, storeVars,
                    startVars, stopVars, removedCnt, analysedCnt, nCalls >>
    /\ UNCHANGED << parserVars, historyVars >>

process_frame == ProcessFrame(MaxFrames)

\* process_frame on a service that is never started
ingest_frame == ProcessFrame(MaxIngestFrames)

(* ------------------------------------------------------------------ *)
(* start_session                                                      *)
(* ------------------------------------------------------------------ *)
\* asyncio.create_task: the id of the task it makes.
NewTask == Cardinality({t \in Tasks : taskPc[t] # "none"}) + 1

\* Lines 76-91: set the running flag, create the worker task, then suspend
\* in find_one.  Nothing looks at an earlier task before the new one is made.
\* The caller (websocket_endpoint, src/app/api/routes/sessions.py:60-65)
\* passes both callbacks on every call, and makes its start_session and
\* stop_session calls one after the other: neither starts while the other is
\* suspended.  process_frame and the worker tasks run at any time.
start_session_call ==
    /\ ~LoopBlocked
    /\ startPc = "idle"
    /\ stopPc = "idle"
    /\ nCalls < MaxCalls
    /\ is_processing_chunks' = TRUE
    /\ nCalls' = nCalls + 1
    /\ chunk_task' = NewTask
    /\ taskPc' = [taskPc EXCEPT ![NewTask] = "new"]
    /\ startPc' = "find"
    /\ UNCHANGED << last_error,
                    serviceVars, chunk_history, trackerVars, ingestVars,
                    chunk_queue, cur, storeVars, stopVars, removedCnt,
                    analysedCnt, startResult >>
    /\ UNCHANGED << parserVars, historyVars >>

\* self.step_status[i] = "pending" for i in range(n); other keys are kept.
InitStatus(st, n) ==
    [i \in DOMAIN st \cup 0..(n - 1) |->
        IF i \in 0..(n - 1) THEN "pending" ELSE st[i]]

\* A faulty test: the missing document goes unnoticed.
ProcedureNeverMissing(doc) == FALSE

\* Line 93: if not self.master_procedure
ProcedureMissing(doc) == ~doc

\* Lines 89-122: find_one returns; a missing procedure raises ValueError,
\* otherwise the steps are loaded, the tracker is reset and insert_one is
\* awaited.
start_session_load(found) ==
    /\ ~LoopBlocked
    /\ startPc = "find"
    /\ master_procedure' = found
    /\ IF ~ProcedureMissing(found)
       THEN /\ procedure_steps' = MasterSteps
            /\ step_status' = InitStatus(step_status, Len(MasterSteps))
            /\ detected_steps_cumulative' = {}
            /\ step_detection_history' = << >>
            /\ step_log' = << >>
            /\ startPc' = "insert"
            /\ UNCHANGED startResult
       ELSE /\ startPc' = "idle"
            /\ startResult' = "raised"
            /\ UNCHANGED << procedure_steps, trackerVars, step_log >>
    /\ UNCHANGED << last_error,
                    current_step_index, session_doc_id, alert_callback,
                    analysis_callback, chunk_history, ingestVars, chunk_queue,
                    is_processing_chunks, chunk_task, taskPc, cur, storeVars,
                    stopVars, removedCnt, analysedCnt,
                    nCalls >>
    /\ UNCHANGED << parserVars, chunk_log >>

\* Lines 122-126: insert_one returns (or raises); the callbacks are stored
\* only after the session document exists.
start_session_insert(ok) ==
    /\ ~LoopBlocked
    /\ startPc = "insert"
    /\ startPc' = "idle"
    /\ startResult' = IF ok THEN "ok" ELSE "raised"
    /\ IF ok
       THEN /\ live_sessions' =
                  Append(live_sessions, [status |-> "active", ended |-> FALSE])
            /\ session_doc_id' = Len(live_sessions) + 1
            /\ alert_callback' = TRUE
            /\ analysis_callback' = TRUE
       ELSE UNCHANGED << live_sessions, session_doc_id, alert_callback,
                         analysis_callback >>
    /\ UNCHANGED << last_error,
                    master_procedure, procedure_steps, current_step_index,
                    chunk_history, trackerVars, ingestVars, chunk_queue,
                    is_processing_chunks, chunk_task, taskPc, cur,
                    session_alerts, alerts_sent,
                    stopVars, removedCnt, analysedCnt,
                    nCalls >>
    /\ UNCHANGED << parserVars, historyVars >>

(* ------------------------------------------------------------------ *)
(* stop_session                                                       *)
(* ------------------------------------------------------------------ *)
Bump(f, k) ==
    [j \in DOMAIN f \cup {k} |->
        IF j = k THEN (IF k \in DOMAIN f THEN f[k] + 1 ELSE 1) ELSE f[j]]

RECURSIVE BumpAll(_, _)
BumpAll(f, q) ==
    IF q = << >> THEN f ELSE BumpAll(Bump(f, Head(q).end_frame), Tail(q))

\* A faulty clean-up: the chunks are left on the queue.
DrainLeavesChunks(q) == q

\* while not self.chunk_queue.empty(): self.chunk_queue.get_nowait()
DrainQueue(q) == << >>

\* A faulty clean-up: the frame buffer is left as it is.
ClearBufferKeeps(buf) == buf

\* self.frame_buffer.clear()
ClearBuffer(buf) == << >>

\* Lines 1104-1114: with a session document the call suspends in
\* update_one, without one it returns.
StopAfterJoin ==
    /\ stopTask' = 0
    /\ IF session_doc_id # 0
       THEN /\ stopPc' = "update"
            /\ stopDoc' = session_doc_id
       ELSE /\ stopPc' = "idle"
            /\ stopDoc' = 0

\* Lines 1077-1100: flag off, queue drained, buffer cleared, the task held in
\* chunk_task cancelled; the call then suspends until that task has ended.
\* With no live task the call goes straight on to the session update.
stop_session_call ==
    /\ ~LoopBlocked
    /\ stopPc = "idle"
    /\ startPc = "idle"
    /\ nCalls < MaxCalls
    /\ nCalls' = nCalls + 1
    /\ is_processing_chunks' = FALSE
    /\ chunk_queue' = DrainQueue(chunk_queue)
    /\ removedCnt' = BumpAll(removedCnt, chunk_queue)
    /\ frame_buffer' = ClearBuffer(frame_buffer)
    /\ clearedAt' = frame_count
    /\ IF chunk_task # 0 /\ taskPc[chunk_task] # "done"
       THEN /\ taskPc' = [taskPc EXCEPT ![chunk_task] = "cancelling"]
            /\ stopTask' = chunk_task
            /\ stopPc' = "join"
            /\ UNCHANGED stopDoc
       ELSE /\ UNCHANGED taskPc
            /\ StopAfterJoin
    /\ UNCHANGED << last_error,
                    serviceVars, chunk_history, trackerVars, frame_count,
                    chunk_task, cur, storeVars, startVars,
                    analysedCnt >>
    /\ UNCHANGED << parserVars, historyVars >>

\* Lines 1100-1106: the awaited task has ended.
stop_session_joined ==
    /\ ~LoopBlocked
    /\ stopPc = "join"
    /\ taskPc[stopTask] = "done"
    /\ StopAfterJoin
    /\ UNCHANGED << last_error,
                    serviceVars, chunk_history, trackerVars, ingestVars,
                    chunk_queue, is_processing_chunks, chunk_task, taskPc, cur,
                    storeVars, startVars, clearedAt, nCalls,
                    removedCnt, analysedCnt >>
    /\ UNCHANGED << parserVars, historyVars >>

\* Lines 1106-1127: update_one returns, or raises and is logged.
stop_session_updated(ok) ==
    /\ ~LoopBlocked
    /\ stopPc = "update"
    /\ stopPc' = "idle"
    /\ stopDoc' = 0
    /\ live_sessions' =
          IF ok
          THEN [live_sessions EXCEPT
                  ![stopDoc] = [status |-> "completed", ended |-> TRUE]]
          ELSE live_sessions
    /\ UNCHANGED << last_error,
                    serviceVars, chunk_history, trackerVars, ingestVars,
                    chunk_queue, is_processing_chunks, chunk_task, taskPc, cur,
                    session_alerts, alerts_sent, startVars, stopTask,
                    clearedAt, nCalls, removedCnt, analysedCnt >>
    /\ UNCHANGED << parserVars, historyVars >>

(* ------------------------------------------------------------------ *)
(* The response parser and the cumulative step tracker                *)
(* ------------------------------------------------------------------ *)
\* A faulty conversion: the step number is returned as the index.
ParseOneBased(analysis) == analysis.detected_step

\* re.search(r'Detected Step:\s*(\d+)'): the 0-based index, or nothing.
_parse_detected_step(analysis) == {n - 1 : n \in analysis.detected_step}

\* A faulty test: every reply counts as matching.
AlwaysMatches(analysis) == TRUE

\* "yes" in text and "matches expected: yes" in text
matches_expected(analysis) == analysis.matches_yes

\* self.step_status.get(i)
StatusGet(st, i) == IF i \in DOMAIN st THEN st[i] ELSE "absent"

\* self.step_status[i] = v
StatusSet(st, i, v) ==
    [j \in DOMAIN st \cup {i} |-> IF j = i THEN v ELSE st[j]]

\* A faulty add: the set is replaced by the new index alone.
AddDetectedReplace(detected, d) == {d}

\* self.detected_steps_cumulative.add(d)
AddDetected(detected, d) == detected \cup {d}

\* self.procedure_steps[d] raises IndexError outside -n..n-1.
ListIndexOk(d, n) == -n <= d /\ d < n

\* A faulty gap: an index 2 behind the detected one counts as skipped.
SkippedGapTwo(detected, st, d) ==
    {i \in 0..(d - 1) :
        i \notin detected /\ d - i > 1 /\ StatusGet(st, i) = "pending"}

\* A faulty filter: indices already detected count as skipped too.
SkippedAnyStatus(detected, st, d) == {i \in 0..(d - 1) : d - i > 2}

\* A faulty test: the detected set is not consulted and a detected status
\* passes as well as a pending one.
SkippedDetectedToo(detected, st, d) ==
    {i \in 0..(d - 1) :
        d - i > 2 /\ StatusGet(st, i) \in {"pending", "detected"}}

\* Lines 490-495: the pending indices more than 2 behind the detected one.
SkippedBefore(detected, st, d) ==
    {i \in 0..(d - 1) :
        i \notin detected /\ d - i > 2 /\ StatusGet(st, i) = "pending"}

\* A faulty write: a status "missed" is kept.
MarkDetectedUnlessMissed(st, d) ==
    IF StatusGet(st, d) = "missed" THEN st ELSE StatusSet(st, d, "detected")

\* Line 471: self.step_status[detected_step_index] = "detected"
MarkDetected(st, d) == StatusSet(st, d, "detected")

\* Lines 455-503.  The result is the tracker after the update and whether an
\* exception left _process_analysis_response through the handler at line
\* 567.  Line 478/486 indexes procedure_steps with the detected index after
\* the set and the status were written.  Line 503 calls
\* self._create_missed_step_alert, which the class does not define: the
\* attribute lookup raises after the first index was marked missed.
TrackerUpdate(detected, st, analysis, n) ==
    LET parsed == _parse_detected_step(analysis)
    IN  IF parsed = {} \/ ~matches_expected(analysis)
        THEN [detected |-> detected, status |-> st, raised |-> FALSE,
              skipped_alerts |-> << >>]
        ELSE LET d == CHOOSE x \in parsed : TRUE
                 det1 == AddDetected(detected, d)
                 st1 == MarkDetected(st, d)
                 skipped == SkippedBefore(det1, st1, d)
             IN  IF ~ListIndexOk(d, n)
                 THEN [detected |-> det1, status |-> st1, raised |-> TRUE,
                       skipped_alerts |-> << >>]
                 ELSE IF skipped = {}
                 THEN [detected |-> det1, status |-> st1, raised |-> FALSE,
                       skipped_alerts |-> << >>]
                 ELSE LET i == SetMin(skipped)
                          call == _create_missed_step_alert(i)
                      IN  [detected |-> det1,
                           status |-> StatusSet(st1, i, "missed"),
                           raised |-> call.raised,
                           skipped_alerts |-> call.alerts]

\* A faulty trim: the oldest entries are the ones kept.
KeepFirst(seq, k) == IF Len(seq) > k THEN SubSeq(seq, 1, k) ELSE seq

\* Lines 405-406 and 467-468: seq[-k:] when the list is longer than k.
KeepLast(seq, k) ==
    IF Len(seq) > k THEN SubSeq(seq, Len(seq) - k + 1, Len(seq)) ELSE seq

\* Lines 463-468 on the contents: the reply of the chunk is appended to
\* the list of the step and the list is trimmed.
StepLogAppend(log, d, chunk) ==
    [i \in DOMAIN log \cup {d} |->
        IF i # d THEN log[i]
        ELSE KeepLast(Append(IF d \in DOMAIN log THEN log[d] ELSE << >>,
                             chunk), history_keep)]

\* Lines 455-468 on the contents: only a matched reply is stored.
StepLogUpdate(log, analysis, chunk) ==
    LET parsed == _parse_detected_step(analysis)
    IN  IF parsed = {} \/ ~matches_expected(analysis)
        THEN log
        ELSE StepLogAppend(log, CHOOSE d \in parsed : TRUE, chunk)

\* Lines 462-468: the reply is appended to the history of the step it
\* names and only the last history_keep replies of a step are kept; the
\* history is modelled by its length per step.
HistoryAppend(hist, d) ==
    [i \in DOMAIN hist \cup {d} |->
        IF i # d THEN hist[i]
        ELSE IF d \notin DOMAIN hist THEN 1
        ELSE IF hist[d] + 1 > history_keep THEN history_keep
        ELSE hist[d] + 1]

\* Lines 455-468: only a matched reply is stored, before anything that can
\* raise.
HistoryUpdate(hist, analysis) ==
    LET parsed == _parse_detected_step(analysis)
    IN  IF parsed = {} \/ ~matches_expected(analysis)
        THEN hist
        ELSE HistoryAppend(hist, CHOOSE d \in parsed : TRUE)

\* _check_compliance, lines 872-901: the alerts raised for a reply.
ComplianceAlerts(analysis, expected_step) ==
    IF analysis.concern
    THEN << [alert_type |-> "safety_concern",
             severity |-> IF expected_step.is_critical THEN "high" ELSE "medium"] >>
    ELSE << >>

(* ------------------------------------------------------------------ *)
(* _process_chunk_queue and what it calls                             *)
(* ------------------------------------------------------------------ *)
\* A faulty loop: the task returns after its first pass.
LoopRunsOnce(flag) == "done"

\* while self.is_processing_chunks: the task waits again or returns.
LoopCheck(flag) == IF flag THEN "get" ELSE "done"

\* A faulty check: the worker never sees the session as stopped.
SessionNeverStopped(flag) == FALSE

\* Line 277: the early exit of _analyze_video_chunk.
SessionStopped(flag) == ~flag

\* A faulty get: the chunk is read and left on the queue.
QueuePeek(q) == q

\* self.chunk_queue.get(): the queue without the item handed out.
QueueRest(q) == Tail(q)

\* The task runs for the first time.
worker_first_run(t) ==
    /\ ~LoopBlocked
    /\ taskPc[t] = "new"
    /\ taskPc' = [taskPc EXCEPT ![t] = LoopCheck(is_processing_chunks)]
    /\ UNCHANGED << last_error,
                    serviceVars, chunk_history, trackerVars, ingestVars,
                    chunk_queue, is_processing_chunks, chunk_task, cur,
                    storeVars, startVars, stopVars, removedCnt, analysedCnt,
                    nCalls >>
    /\ UNCHANGED << parserVars, historyVars >>

\* A faulty wait: get() without a timeout never comes back on an empty
\* queue.
PollBlocksForever(flag) == "get"

\* Lines 196-215: wait_for(..., timeout=1.0) raises TimeoutError, the
\* handler continues, and the loop test is evaluated again.
PollTimeoutPc(flag) == LoopCheck(flag)

\* Lines 197-215: wait_for times out on the empty queue.
worker_poll_timeout(t) ==
    /\ ~LoopBlocked
    /\ taskPc[t] = "get"
    /\ chunk_queue = << >>
    /\ taskPc' = [taskPc EXCEPT ![t] = PollTimeoutPc(is_processing_chunks)]
    /\ UNCHANGED << last_error,
                    serviceVars, chunk_history, trackerVars, ingestVars,
                    chunk_queue, is_processing_chunks, chunk_task, cur,
                    storeVars, startVars, stopVars, removedCnt, analysedCnt,
                    nCalls >>
    /\ UNCHANGED << parserVars, historyVars >>

\* A faulty handler: the failure of one chunk ends the worker task.
ChunkFailureEndsTask(flag) == "done"

\* A faulty handler: the failed chunk goes on to the analysis callback.
ChunkFailureSendsSnapshot(flag) == "callback"

\* Lines 422-427: what the encoder, the prompt building or the oracle call
\* raises is caught and logged inside _analyze_video_chunk; the call
\* returns normally, which puts the worker back at its loop test.
ChunkFailurePc(flag) == LoopCheck(flag)

\* Lines 296-297 and 319-322 index procedure_steps with every index of the
\* detected set, and line 355 reads master_procedure: the prompt cannot be
\* built with an index past the list or without a procedure document.
PromptFails(detected, n) ==
    \/ ~master_procedure
    \/ \E i \in detected : ~ListIndexOk(i, n)

\* Lines 197-211 and 273-397: a chunk is taken off the queue and given to
\* _analyze_video_chunk, which returns early (session stopped, no steps),
\* fails before the oracle call (the encoder raises; master_procedure is
\* None when the prompt is built) or enters the oracle call.
worker_get_chunk(t, encode_ok) ==
    /\ ~LoopBlocked
    /\ taskPc[t] = "get"
    /\ chunk_queue # << >>
    /\ LET chunk == Head(chunk_queue)
           n == Len(procedure_steps)
       IN  /\ chunk_queue' = QueueRest(chunk_queue)
           /\ removedCnt' = Bump(removedCnt, chunk.end_frame)
           /\ analysedCnt' = Bump(analysedCnt, chunk.end_frame)
           /\ IF SessionStopped(is_processing_chunks)
                 \/ n = 0 \/ current_step_index >= n
              THEN /\ taskPc' = [taskPc EXCEPT
                                   ![t] = LoopCheck(is_processing_chunks)]
                   /\ UNCHANGED << cur, last_error >>
              ELSE IF ~encode_ok \/ PromptFails(detected_steps_cumulative, n)
              THEN /\ taskPc' = [taskPc EXCEPT
                                   ![t] = ChunkFailurePc(is_processing_chunks)]
                   /\ last_error' = "chunk_analysis_failed"
                   /\ UNCHANGED cur
              ELSE /\ taskPc' = [taskPc EXCEPT ![t] = "oracle"]
                   /\ UNCHANGED last_error
                   /\ cur' = [cur EXCEPT
                                ![t] = [chunk |-> chunk.end_frame,
                                        expected |->
                                          procedure_steps[current_step_index + 1],
                                        alerts |-> << >>,
                                        snapshot |-> NoSnapshot]]
    /\ UNCHANGED << serviceVars, chunk_history, trackerVars, ingestVars,
                    is_processing_chunks, chunk_task, storeVars, startVars,
                    stopVars, nCalls >>
    /\ UNCHANGED << parserVars, historyVars >>

\* Lines 397-427: generate_content raises and the chunk is dropped.
oracle_fails(t) ==
    /\ taskPc[t] = "oracle"
    /\ last_error' = "chunk_analysis_failed"
    /\ taskPc' = [taskPc EXCEPT ![t] = ChunkFailurePc(is_processing_chunks)]
    /\ cur' = [cur EXCEPT ![t] = Idle]
    /\ UNCHANGED << serviceVars, chunk_history, trackerVars, ingestVars,
                    chunk_queue, is_processing_chunks, chunk_task, storeVars,
                    startVars, stopVars, removedCnt, analysedCnt,
                    nCalls >>
    /\ UNCHANGED << parserVars, historyVars >>

\* A faulty continuation: the chunk's alerts are dropped.
AfterSnapshotDropsAlerts(t, alerts) ==
    /\ taskPc' = [taskPc EXCEPT ![t] = LoopCheck(is_processing_chunks)]
    /\ cur' = [cur EXCEPT ![t] = Idle]

\* What follows the snapshot: _check_compliance and, with alerts to store,
\* the suspension in insert_many.  The alerts are a function of the reply
\* and of the step captured before the oracle call, so the task record
\* keeps them in place of the reply's text.
AfterSnapshot(t, alerts) ==
    IF alerts # << >>
    THEN /\ taskPc' = [taskPc EXCEPT ![t] = "insert"]
         /\ cur' = [cur EXCEPT ![t].alerts = alerts,
                               ![t].snapshot = NoSnapshot]
    ELSE /\ taskPc' = [taskPc EXCEPT ![t] = LoopCheck(is_processing_chunks)]
         /\ cur' = [cur EXCEPT ![t] = Idle]

\* A faulty choice: the displayed step is the number of detected steps.
CountDetected(detected, n) == Cardinality(detected)

\* Lines 510-513: the first index of the procedure that is not in the
\* detected set, or the last index when there is none.
next_undetected_index(detected, n) ==
    IF \E i \in 0..(n - 1) : i \notin detected
    THEN SetMin({i \in 0..(n - 1) : i \notin detected})
    ELSE n - 1

\* Lines 515-520: the analysis_data handed to the analysis callback.
Snapshot(frame_info, detected, n) ==
    [frame_count |-> frame_info,
     current_step_index |-> next_undetected_index(detected, n)]

\* Lines 397-547: the oracle call returns a reply; the history and the
\* tracker are updated and, with an analysis callback stored, the task
\* suspends in it.
oracle_returns(t, analysis) ==
    /\ taskPc[t] = "oracle"
    /\ chunk_history' =
          IF chunk_history + 1 > history_limit
          THEN history_limit ELSE chunk_history + 1
    /\ chunk_log' = KeepLast(Append(chunk_log, cur[t].chunk), history_limit)
    /\ step_log' = StepLogUpdate(step_log, analysis, cur[t].chunk)
    /\ LET upd == TrackerUpdate(detected_steps_cumulative, step_status,
                                analysis, Len(procedure_steps))
       IN  /\ detected_steps_cumulative' = upd.detected
           /\ step_status' = upd.status
           /\ step_detection_history' =
                 HistoryUpdate(step_detection_history, analysis)
           /\ last_error' = IF upd.raised
                             THEN "analysis_response_processing_failed"
                             ELSE last_error
           /\ IF upd.raised
              THEN /\ taskPc' = [taskPc EXCEPT
                                   ![t] = LoopCheck(is_processing_chunks)]
                   /\ cur' = [cur EXCEPT ![t] = Idle]
              ELSE IF analysis_callback
              THEN /\ taskPc' = [taskPc EXCEPT ![t] = "callback"]
                   /\ cur' = [cur EXCEPT
                                ![t].alerts =
                                  ComplianceAlerts(analysis, cur[t].expected),
                                ![t].snapshot =
                                  Snapshot(cur[t].chunk, upd.detected,
                                           Len(procedure_steps))]
              ELSE AfterSnapshot(t, ComplianceAlerts(analysis, cur[t].expected))
    /\ UNCHANGED << serviceVars, ingestVars, chunk_queue,
                    is_processing_chunks, chunk_task, storeVars, startVars,
                    stopVars, removedCnt, analysedCnt, nCalls >>
    /\ UNCHANGED parserVars

\* Lines 547-559: the analysis callback returns, or raises and is logged.
analysis_callback_returns(t, ok) ==
    /\ ~LoopBlocked
    /\ taskPc[t] = "callback"
    /\ last_error' = IF ok THEN last_error ELSE "analysis_callback_failed"
    /\ AfterSnapshot(t, cur[t].alerts)
    /\ UNCHANGED << serviceVars, chunk_history, trackerVars, ingestVars,
                    chunk_queue, is_processing_chunks, chunk_task, storeVars,
                    startVars, stopVars, removedCnt, analysedCnt,
                    nCalls >>
    /\ UNCHANGED << parserVars, historyVars >>

\* A faulty handler: the failure ends the worker task.
AlertsFailureEndsTask(flag) == "done"

\* Lines 1042-1047: what insert_many raises is caught and logged inside
\* _create_alerts; the call returns normally and so do its callers, which
\* puts the worker back at its loop test.
AlertsFailurePc(flag) == LoopCheck(flag)

\* A faulty order: the batch goes to the callback whether stored or not.
ForwardedUnstored(stored, callback) == callback

\* Lines 1027-1038: the callback is reached only past insert_many, inside
\* the same try block, and only when a callback is held.
AlertsForwarded(stored, callback) == stored /\ callback

\* Lines 1027-1047: insert_many returns and the batch is stored, or it
\* raises and the batch is dropped; a stored batch goes to the alert
\* callback when one is held.
insert_many_returns(t, ok) ==
    /\ ~LoopBlocked
    /\ taskPc[t] = "insert"
    /\ last_error' = IF ok THEN last_error ELSE "failed_to_create_alerts"
    /\ session_alerts' =
          IF ok THEN session_alerts \o cur[t].alerts ELSE session_alerts
    /\ IF AlertsForwarded(ok, alert_callback)
       THEN /\ taskPc' = [taskPc EXCEPT ![t] = "alert_cb"]
            /\ alerts_sent' = alerts_sent + 1
            /\ UNCHANGED cur
       ELSE /\ taskPc' = [taskPc EXCEPT
                            ![t] = IF ok
                                   THEN LoopCheck(is_processing_chunks)
                                   ELSE AlertsFailurePc(is_processing_chunks)]
            /\ cur' = [cur EXCEPT ![t] = Idle]
            /\ UNCHANGED alerts_sent
    /\ UNCHANGED << serviceVars, chunk_history, trackerVars, ingestVars,
                    chunk_queue, is_processing_chunks, chunk_task,
                    live_sessions, startVars, stopVars, removedCnt,
                    analysedCnt, nCalls >>
    /\ UNCHANGED << parserVars, historyVars >>

\* Lines 1038-1040: the alert callback returns, or raises and is logged.
alert_callback_returns(t, ok) ==
    /\ ~LoopBlocked
    /\ taskPc[t] = "alert_cb"
    /\ last_error' = IF ok THEN last_error ELSE "alert_callback_failed"
    /\ taskPc' = [taskPc EXCEPT ![t] = LoopCheck(is_processing_chunks)]
    /\ cur' = [cur EXCEPT ![t] = Idle]
    /\ UNCHANGED << serviceVars, chunk_history, trackerVars, ingestVars,
                    chunk_queue, is_processing_chunks, chunk_task, storeVars,
                    startVars, stopVars, removedCnt, analysedCnt,
                    nCalls >>
    /\ UNCHANGED << parserVars, historyVars >>

\* Lines 223-227: CancelledError is delivered at the task's suspension
\* point; no handler on the way catches it but the outermost, which logs
\* and lets the task end.
worker_cancelled(t) ==
    /\ ~LoopBlocked
    /\ taskPc[t] = "cancelling"
    /\ taskPc' = [taskPc EXCEPT ![t] = "done"]
    /\ cur' = [cur EXCEPT ![t] = Idle]
    /\ UNCHANGED << last_error,
                    serviceVars, chunk_history, trackerVars, ingestVars,
                    chunk_queue, is_processing_chunks, chunk_task, storeVars,
                    startVars, stopVars, removedCnt, analysedCnt,
                    nCalls >>
    /\ UNCHANGED << parserVars, historyVars >>

Next ==
    \/ process_frame
    \/ start_session_call
    \/ \E found \in BOOLEAN : start_session_load(found)
    \/ \E ok \in BOOLEAN : start_session_insert(ok)
    \/ stop_session_call
    \/ stop_session_joined
    \/ \E ok \in BOOLEAN : stop_session_updated(ok)
    \/ \E t \in Tasks : worker_first_run(t)
    \/ \E t \in Tasks : worker_poll_timeout(t)
    \/ \E t \in Tasks, encode_ok \in BOOLEAN : worker_get_chunk(t, encode_ok)
    \/ \E t \in Tasks : oracle_fails(t)
    \/ \E t \in Tasks, analysis \in Analyses : oracle_returns(t, analysis)
    \/ \E t \in Tasks, ok \in BOOLEAN : analysis_callback_returns(t, ok)
    \/ \E t \in Tasks, ok \in BOOLEAN : insert_many_returns(t, ok)
    \/ \E t \in Tasks, ok \in BOOLEAN : alert_callback_returns(t, ok)
    \/ \E t \in Tasks : worker_cancelled(t)

Spec == Init /\ [][Next]_vars

\* The steps of worker task t: each is a callback of the event loop (a
\* timer of wait_for, the completion of an awaited call, the delivery of a
\* cancellation) that the loop runs once it is ready, or the return of the
\* oracle call.
RunningStep(t) ==
    \/ worker_poll_timeout(t)
    \/ \E encode_ok \in BOOLEAN : worker_get_chunk(t, encode_ok)
    \/ oracle_fails(t)
    \/ \E analysis \in Analyses : oracle_returns(t, analysis)
    \/ \E ok \in BOOLEAN : analysis_callback_returns(t, ok)
    \/ \E ok \in BOOLEAN : insert_many_returns(t, ok)
    \/ \E ok \in BOOLEAN : alert_callback_returns(t, ok)
    \/ worker_cancelled(t)

\* Any step of worker task t, its first scheduling included.
WorkerStep(t) ==
    \/ worker_first_run(t)
    \/ RunningStep(t)

\* process_frame for the first chunk's frames only.
MaxLiveFrames == 7
live_frame == ProcessFrame(MaxLiveFrames)

NextLive ==
    \/ live_frame
    \/ start_session_call
    \/ \E found \in BOOLEAN : start_session_load(found)
    \/ \E ok \in BOOLEAN : start_session_insert(ok)
    \/ stop_session_call
    \/ stop_session_joined
    \/ \E ok \in BOOLEAN : stop_session_updated(ok)
    \/ \E t \in Tasks : WorkerStep(t)

\* The same service under a fair event loop: a worker task that can take
\* a step eventually takes one.
SpecLive ==
    Init /\ [][NextLive]_vars /\ \A t \in Tasks : WF_vars(WorkerStep(t))

\* The chunker alone: frames arrive at a service that was constructed and
\* never started, and stop_session (which then has no task to cancel and no
\* session document to update) may clear the buffer at any time.
NextIngest ==
    \/ ingest_frame
    \/ stop_session_call

SpecIngest == Init /\ [][NextIngest]_vars

\* The step tracker alone: a session that start_session has just set up
\* (procedure loaded, every step pending, nothing detected, the worker
\* waiting on the queue), to which replies are applied one after another.
InitTracker ==
    /\ master_procedure = TRUE
    /\ procedure_steps = MasterSteps
    /\ current_step_index = 0
    /\ session_doc_id = 1
    /\ alert_callback = TRUE
    /\ analysis_callback = TRUE
    /\ chunk_history = 0
    /\ detected_steps_cumulative = {}
    /\ step_status = InitStatus(<< >>, Len(MasterSteps))
    /\ step_detection_history = << >>
    /\ chunk_log = << >>
    /\ step_log = << >>
    /\ frame_buffer = << >>
    /\ frame_count = 0
    /\ chunk_queue = << >>
    /\ is_processing_chunks = TRUE
    /\ chunk_task = 1
    /\ taskPc = [t \in Tasks |-> IF t = 1 THEN "get" ELSE "none"]
    /\ cur = [t \in Tasks |-> Idle]
    /\ live_sessions = << [status |-> "active", ended |-> FALSE] >>
    /\ session_alerts = << >>
    /\ alerts_sent = 0
    /\ startPc = "idle"
    /\ startResult = "ok"
    /\ last_error = "none"
    /\ stopPc = "idle"
    /\ stopTask = 0
    /\ stopDoc = 0
    /\ removedCnt = << >>
    /\ analysedCnt = << >>
    /\ clearedAt = 0
    /\ nCalls = 1
    /\ response_text = << >>
    /\ parsed_fields = {}

\* Lines 436-520 and 567-572 of _process_analysis_response: the reply is
\* parsed, the detected set, the step statuses and the detection history
\* are updated and the analysis_data of the reply is built; what the update
\* raises is caught and logged by the method's own handler.
_process_analysis_response(analysis) ==
    /\ step_log' = StepLogUpdate(step_log, analysis, cur[chunk_task].chunk)
    /\ LET upd == TrackerUpdate(detected_steps_cumulative, step_status,
                                analysis, Len(procedure_steps))
       IN  /\ detected_steps_cumulative' = upd.detected
           /\ step_status' = upd.status
           /\ step_detection_history' =
                 HistoryUpdate(step_detection_history, analysis)
           /\ last_error' = IF upd.raised
                             THEN "analysis_response_processing_failed"
                             ELSE last_error
           /\ cur' = [cur EXCEPT
                        ![chunk_task].snapshot =
                          IF ~upd.raised /\ analysis_callback
                          THEN Snapshot(cur[chunk_task].chunk, upd.detected,
                                        Len(procedure_steps))
                          ELSE NoSnapshot]
    /\ UNCHANGED << serviceVars, chunk_history, ingestVars, chunk_queue,
                    is_processing_chunks, chunk_task, taskPc, storeVars,
                    startVars, stopVars, removedCnt, analysedCnt, nCalls >>
    /\ UNCHANGED << parserVars, chunk_log >>

NextTracker == \E analysis \in Analyses : _process_analysis_response(analysis)

SpecTracker == InitTracker /\ [][NextTracker]_vars

(* ------------------------------------------------------------------ *)
(* The reply parsers                                                  *)
(* ------------------------------------------------------------------ *)
\* A reply text is a sequence of tokens: the field labels, single blanks,
\* line ends, numbers and words.  The regular expressions of the parsers
\* are followed token by token; a word is never split.
MaxLines == 4

\* str.lower() on the tokens that are not lower case already.
Folded ==
    [tok \in {"Detected Step:", "Step Progress:", "Completion Evidence:",
              "Matches Expected:", "Analysis:", "N/A", "None"} |->
       CASE tok = "Detected Step:" -> "detected step:"
         [] tok = "Step Progress:" -> "step progress:"
         [] tok = "Completion Evidence:" -> "completion evidence:"
         [] tok = "Matches Expected:" -> "matches expected:"
         [] tok = "Analysis:" -> "analysis:"
         [] tok = "N/A" -> "n/a"
         [] tok = "None" -> "none"]

Lower(tok) == IF tok \in DOMAIN Folded THEN Folded[tok] ELSE tok

\* int() of the tokens that \d+ matches.
Digits == [tok \in {"0", "4"} |-> IF tok = "0" THEN 0 ELSE 4]

\* \s matches a blank and a line end alike.
IsSpace(tok) == tok \in {" ", "\n"}

\* The lines the replies are made of.
Lines ==
    { << "Detected Step:", " ", "4" >>,
      << "Detected Step:", " ", "None" >>,
      << "Step Progress:", " ", "completed" >>,
      << "Matches Expected:", " ", "yes" >>,
      << "Matches Expected:", " ", "no" >>,
      << "Completion Evidence:", " ", "suture", " ", "tied" >>,
      << "Completion Evidence:", " ", " ", "suture", " " >>,
      << "Completion Evidence:" >>,
      << "Completion Evidence:", " " >>,
      << "Completion Evidence:", " ", "N/A", " " >>,
      << "Completion Evidence:", " ", "None" >>,
      << "Completion Evidence:", " ", "-" >>,
      << "Completion Evidence:", " ", "null" >>,
      << "Analysis:", " ", "suture" >> }

RECURSIVE JoinLines(_)
\* "\n".join(lines)
JoinLines(ls) ==
    IF ls = << >> THEN << >>
    ELSE IF Len(ls) = 1 THEN ls[1]
    ELSE ls[1] \o << "\n" >> \o JoinLines(Tail(ls))

\* The reply texts of up to n lines, with or without a final line end.
Texts(n) ==
    LET joined == {JoinLines(ls) :
                     ls \in UNION {[1..k -> Lines] : k \in 0..n}}
    IN  joined \cup {t \o << "\n" >> : t \in joined}

\* The position at which a greedy \s* started at position i stops.
SkipSpace(text, i) ==
    LET rest == {j \in i..Len(text) : ~IsSpace(text[j])}
    IN  IF rest = {} THEN Len(text) + 1 ELSE SetMin(rest)

\* The end of the line that position i is on: the position of the next
\* line end, or one past the text.
LineEnd(text, i) ==
    LET ends == {j \in i..Len(text) : text[j] = "\n"}
    IN  IF ends = {} THEN Len(text) + 1 ELSE SetMin(ends)

\* str.strip() of a piece of text.
Strip(piece) ==
    LET inked == {j \in 1..Len(piece) : ~IsSpace(piece[j])}
    IN  IF inked = {} THEN << >>
        ELSE SubSeq(piece, SetMin(inked),
                    CHOOSE j \in inked : \A k \in inked : k <= j)

\* re.search(label + r'\s*(...)', text, re.IGNORECASE): the positions of
\* the label after which, blanks and line ends skipped, a token of the
\* group stands.
LabelMatches(text, label, group) ==
    {i \in 1..Len(text) :
        /\ Lower(text[i]) = label
        /\ SkipSpace(text, i + 1) <= Len(text)
        /\ Lower(text[SkipSpace(text, i + 1)]) \in group}

\* Line 927: the number the leftmost match of 'Detected Step:\s*(\d+)'
\* captures; no element when there is no match.
DetectedStepMatch(text) ==
    LET found == LabelMatches(text, "detected step:", DOMAIN Digits)
    IN  IF found = {} THEN {}
        ELSE {Digits[text[SkipSpace(text, SetMin(found) + 1)]]}

\* Line 439: "yes" in analysis.lower() and
\* "matches expected: yes" in analysis.lower()
MatchesExpectedYes(text) ==
    \E i \in 1..(Len(text) - 2) :
        /\ Lower(text[i]) = "matches expected:"
        /\ text[i + 1] = " "
        /\ Lower(text[i + 2]) = "yes"

\* _check_compliance, line 880: one of the safety keywords is in the text.
HasConcern(text) ==
    \E i \in 1..Len(text) :
        Lower(text[i]) \in {"concern", "risk", "danger", "warning"}

\* What the service reads from a reply text: an element of Analyses.
Scan(text) ==
    [detected_step |-> DetectedStepMatch(text),
     matches_yes |-> MatchesExpectedYes(text),
     concern |-> HasConcern(text)]

\* Lines 937-956: the leftmost match of 'Step Progress:\s*(just-started|
\* in-progress|nearing-completion|completed)', lower-cased; no element
\* when there is no match.
_parse_step_progress(text) ==
    LET words == {"just-started", "in-progress", "nearing-completion",
                  "completed"}
        found == LabelMatches(text, "step progress:", words)
    IN  IF found = {} THEN {}
        ELSE {Lower(text[SkipSpace(text, SetMin(found) + 1)])}

\* Lines 972-973: the placeholder texts, compared lower-cased.
IsPlaceholder(evidence) ==
    Len(evidence) = 1
      /\ Lower(evidence[1]) \in {"none", "n/a", "-", "null"}

\* Lines 958-978: 'Completion Evidence:\s*(.+?)(?:\n|$)'.  The greedy \s*
\* runs over blanks and line ends up to the next token that is neither,
\* and the group takes the rest of that token's line.  When nothing but
\* blanks and line ends follows the label, the group can capture blanks
\* only, which strip() empties: the result is None as for no match.
_parse_completion_evidence(text) ==
    LET found == {i \in 1..Len(text) :
                     /\ Lower(text[i]) = "completion evidence:"
                     /\ SkipSpace(text, i + 1) <= Len(text)}
    IN  IF found = {} THEN {}
        ELSE LET from == SkipSpace(text, SetMin(found) + 1)
                 evidence ==
                   Strip(SubSeq(text, from, LineEnd(text, from) - 1))
             IN  IF evidence # << >> /\ ~IsPlaceholder(evidence)
                 THEN {evidence} ELSE {}

\* Lines 438-441: the four values read from one reply.
parse_response ==
    /\ parsed_fields = {}
    /\ parsed_fields' =
         {[detected_step_index |-> _parse_detected_step(Scan(response_text)),
           matches_expected |-> matches_expected(Scan(response_text)),
           step_progress |-> _parse_step_progress(response_text),
           completion_evidence |->
             _parse_completion_evidence(response_text)]}
    /\ UNCHANGED << serviceVars, chunk_history, trackerVars, ingestVars,
                    chunk_queue, is_processing_chunks, chunk_task, taskPc,
                    cur, storeVars, startVars, stopVars, last_error,
                    removedCnt, analysedCnt, nCalls, response_text,
                    historyVars >>

InitParser ==
    /\ Constructed
    /\ response_text \in Texts(MaxLines)
    /\ parsed_fields = {}

NextParser == parse_response

SpecParser == InitParser /\ [][NextParser]_vars

\* One session from its successful start on, under the fair event loop:
\* frames arrive, the worker runs, and stop_session may be called.
NextQueue ==
    \/ process_frame
    \/ stop_session_call
    \/ stop_session_joined
    \/ \E ok \in BOOLEAN : stop_session_updated(ok)
    \/ \E t \in Tasks : RunningStep(t)

SpecQueue ==
    InitTracker /\ [][NextQueue]_vars
        /\ \A t \in Tasks : WF_vars(RunningStep(t))

(* ------------------------------------------------------------------ *)
(* The history buffers                                                *)
(* ------------------------------------------------------------------ *)
\* The two histories alone: a started session whose chunks are analysed
\* one after another, more of them than chunk_history holds.
MaxReplies == 12

\* The replies fed to the histories: no step, or a match of step 1 or 2.
HistoryReplies ==
    {a \in Analyses :
        /\ ~a.concern
        /\ \/ a.detected_step = {} /\ ~a.matches_yes
           \/ a.detected_step \in {{1}, {2}} /\ a.matches_yes}

\* Lines 171-175: the end_frame of the k-th chunk cut from the frames.
ChunkEnd(k) == chunk_size + (k - 1) * (chunk_size - chunk_overlap)

\* Lines 397-547 for one chunk whose oracle call returns: the reply goes
\* into chunk_history, then _process_analysis_response updates the tracker
\* and the detection history and builds the analysis_data.
chunk_analysed(analysis) ==
    /\ Cardinality(DOMAIN analysedCnt) < MaxReplies
    /\ LET chunk == ChunkEnd(Cardinality(DOMAIN analysedCnt) + 1)
           upd == TrackerUpdate(detected_steps_cumulative, step_status,
                                analysis, Len(procedure_steps))
       IN  /\ removedCnt' = Bump(removedCnt, chunk)
           /\ analysedCnt' = Bump(analysedCnt, chunk)
           /\ chunk_history' =
                 IF chunk_history + 1 > history_limit
                 THEN history_limit ELSE chunk_history + 1
           /\ chunk_log' = KeepLast(Append(chunk_log, chunk), history_limit)
           /\ detected_steps_cumulative' = upd.detected
           /\ step_status' = upd.status
           /\ step_detection_history' =
                 HistoryUpdate(step_detection_history, analysis)
           /\ step_log' = StepLogUpdate(step_log, analysis, chunk)
           /\ last_error' = IF upd.raised
                             THEN "analysis_response_processing_failed"
                             ELSE last_error
           /\ cur' = [cur EXCEPT
                        ![chunk_task].snapshot =
                          IF ~upd.raised /\ analysis_callback
                          THEN Snapshot(chunk, upd.detected,
                                        Len(procedure_steps))
                          ELSE NoSnapshot]
    /\ UNCHANGED << serviceVars, ingestVars, chunk_queue,
                    is_processing_chunks, chunk_task, taskPc, storeVars,
                    startVars, stopVars, nCalls, parserVars >>

NextHistory == \E analysis \in HistoryReplies : chunk_analysed(analysis)

SpecHistory == InitTracker /\ [][NextHistory]_vars

(* ------------------------------------------------------------------ *)
(* The per-frame analysis with a cursor (_analyze_current_state)      *)
(* ------------------------------------------------------------------ *)
\* Alerts the store may hold before a further frame is analysed.
MaxLegacyAlerts == 1
\* Steps of the procedure the cursor runs over.
LegacySteps == 3

\* What lines 725-731 read from a reply: the fields of the chunk path, the
\* "repeated completed step: yes" mark, the word after "Step Progress:" and
\* the text after "Completion Evidence:" (no element when the parser
\* returns None).
LegacyAnalyses ==
    [detected_step : {{}} \cup {{n} : n \in 0..(LegacySteps + 1)},
     matches_yes : BOOLEAN,
     concern : BOOLEAN,
     repeated : BOOLEAN,
     progress : {{}, {"in-progress"}, {"completed"}},
     evidence : {{}, {<< "suture", " ", "tied" >>}}]

\* A faulty test: the reported progress is enough to complete a step.
CompletesWithoutEvidence(progress, evidence) == progress = {"completed"}

\* Line 797: if step_progress == "completed" and completion_evidence
CompletionConfirmed(progress, evidence) ==
    progress = {"completed"} /\ evidence # {}

\* Lines 751-764: a detected step that is already completed is replaced by
\* the cursor unless the reply marks it as repeated.
EffectiveDetected(cursor, st, analysis) ==
    LET parsed == _parse_detected_step(analysis)
    IN  IF parsed = {} THEN {}
        ELSE IF /\ StatusGet(st, CHOOSE d \in parsed : TRUE) = "completed"
                /\ ~analysis.repeated
        THEN {cursor}
        ELSE parsed

RECURSIVE MarkMissedFrom(_, _, _)
\* Lines 786-788: for i in range(cursor, detected), every step that is not
\* completed becomes missed.
MarkMissedFrom(st, i, d) ==
    IF i >= d THEN st
    ELSE MarkMissedFrom(IF StatusGet(st, i) # "completed"
                        THEN StatusSet(st, i, "missed") ELSE st,
                        i + 1, d)

RECURSIVE MissedAlerts(_, _, _, _)
\* Lines 789 and 980-1001: one step_skipped alert for each step marked, in
\* order; an index past the list gets none.
MissedAlerts(st, i, d, steps) ==
    IF i >= d THEN << >>
    ELSE (IF StatusGet(st, i) # "completed" /\ i < Len(steps)
          THEN << [alert_type |-> "step_skipped",
                   severity |-> IF steps[i + 1].is_critical
                                THEN "high" ELSE "medium",
                   step_index |-> i] >>
          ELSE << >>)
         \o MissedAlerts(st, i + 1, d, steps)

\* Lines 766-816: the new cursor and statuses, and the alerts generated on
\* the way.
LegacyTrack(cursor, st, analysis, steps) ==
    LET detected == EffectiveDetected(cursor, st, analysis)
        same == [cursor |-> cursor, status |-> st, alerts |-> << >>]
    IN  IF detected # {} /\ detected # {cursor}
        THEN LET d == CHOOSE x \in detected : TRUE
             IN  IF StatusGet(st, d) = "completed" /\ analysis.repeated
                 THEN [cursor |-> d,
                       status |-> StatusSet(StatusSet(st, cursor, "pending"),
                                            d, "current"),
                       alerts |-> << >>]
                 ELSE IF d > cursor
                 THEN [cursor |-> d,
                       status |-> StatusSet(MarkMissedFrom(st, cursor, d),
                                            d, "current"),
                       alerts |-> MissedAlerts(st, cursor, d, steps)]
                 ELSE same
        ELSE IF matches_expected(analysis) /\ detected = {cursor}
        THEN IF CompletionConfirmed(analysis.progress, analysis.evidence)
             THEN [cursor |-> cursor + 1,
                   status |->
                     LET done == StatusSet(st, cursor, "completed")
                     IN  IF cursor + 1 < Len(steps)
                         THEN StatusSet(done, cursor + 1, "current")
                         ELSE done,
                   alerts |-> << >>]
             ELSE same
        ELSE same

\* _analyze_current_state, lines 574-855, for one reply of the oracle.
\* store_ok: insert_many succeeds during the call; callback_ok: the
\* analysis callback returns (when it raises, _check_compliance is not
\* reached and the handler at 850 logs).
_analyze_current_state(analysis, store_ok, callback_ok) ==
    /\ frame_buffer # << >>
    /\ procedure_steps # << >>
    /\ current_step_index < Len(procedure_steps)
    /\ Len(session_alerts) < MaxLegacyAlerts
    /\ LET current_step == procedure_steps[current_step_index + 1]
           track == LegacyTrack(current_step_index, step_status, analysis,
                                procedure_steps)
           sent == ~analysis_callback \/ callback_ok
           compliance == IF sent
                         THEN ComplianceAlerts(analysis, current_step)
                         ELSE << >>
       IN  /\ current_step_index' = track.cursor
           /\ step_status' = track.status
           /\ session_alerts' =
                 IF store_ok
                 THEN session_alerts \o track.alerts \o compliance
                 ELSE session_alerts
           /\ alerts_sent' =
                 IF AlertsForwarded(store_ok, alert_callback)
                 THEN alerts_sent + Len(track.alerts)
                        + (IF compliance # << >> THEN 1 ELSE 0)
                 ELSE alerts_sent
           /\ last_error' =
                 IF ~sent THEN "state_analysis_failed"
                 ELSE IF ~store_ok /\ track.alerts \o compliance # << >>
                 THEN "failed_to_create_alerts"
                 ELSE last_error
    /\ UNCHANGED << master_procedure, procedure_steps, session_doc_id,
                    alert_callback, analysis_callback, chunk_history,
                    detected_steps_cumulative, step_detection_history,
                    ingestVars, chunk_queue, is_processing_chunks,
                    chunk_task, taskPc, cur, live_sessions, startVars,
                    stopVars, removedCnt, analysedCnt, nCalls >>
    /\ UNCHANGED << parserVars, historyVars >>

\* Lines 716-719 and 850-855: analyze_frame raises and the handler logs.
analyze_frame_fails ==
    /\ frame_buffer # << >>
    /\ procedure_steps # << >>
    /\ current_step_index < Len(procedure_steps)
    /\ last_error # "state_analysis_failed"
    /\ last_error' = "state_analysis_failed"
    /\ UNCHANGED << serviceVars, chunk_history, trackerVars, ingestVars,
                    chunk_queue, is_processing_chunks, chunk_task, taskPc,
                    cur, storeVars, startVars, stopVars, removedCnt,
                    analysedCnt, nCalls >>
    /\ UNCHANGED << parserVars, historyVars >>

\* A started session that holds one frame and whose frames are analysed by
\* _analyze_current_state.
InitLegacy ==
    /\ master_procedure = TRUE
    /\ procedure_steps = SubSeq(MasterSteps, 1, LegacySteps)
    /\ current_step_index = 0
    /\ session_doc_id = 1
    /\ alert_callback = TRUE
    /\ analysis_callback = TRUE
    /\ chunk_history = 0
    /\ detected_steps_cumulative = {}
    /\ step_status = InitStatus(<< >>, LegacySteps)
    /\ step_detection_history = << >>
    /\ chunk_log = << >>
    /\ step_log = << >>
    /\ frame_buffer = << 1 >>
    /\ frame_count = 1
    /\ chunk_queue = << >>
    /\ is_processing_chunks = TRUE
    /\ chunk_task = 1
    /\ taskPc = [t \in Tasks |-> IF t = 1 THEN "get" ELSE "none"]
    /\ cur = [t \in Tasks |-> Idle]
    /\ live_sessions = << [status |-> "active", ended |-> FALSE] >>
    /\ session_alerts = << >>
    /\ alerts_sent = 0
    /\ startPc = "idle"
    /\ startResult = "ok"
    /\ last_error = "none"
    /\ stopPc = "idle"
    /\ stopTask = 0
    /\ stopDoc = 0
    /\ removedCnt = << >>
    /\ analysedCnt = << >>
    /\ clearedAt = 0
    /\ nCalls = 1
    /\ response_text = << >>
    /\ parsed_fields = {}

NextLegacy ==
    \/ \E analysis \in LegacyAnalyses, store_ok, callback_ok \in BOOLEAN :
          _analyze_current_state(analysis, store_ok, callback_ok)
    \/ analyze_frame_fails

SpecLegacy == InitLegacy /\ [][NextLegacy]_vars

(* ================================================================== *)
(* Properties                                                         *)
(* ================================================================== *)
\* A worker task that was created and has not ended.
LiveTask(t) == taskPc[t] \notin {"none", "done"}

\* A worker task between the start of a chunk's oracle call and the end of
\* that chunk's processing (snapshot and alerts included).
Busy(t) == taskPc[t] \in {"oracle", "callback", "insert", "alert_cb"}

\* Chunks put on the queue so far: those on it and those taken off it.
NEnqueued == Len(chunk_queue) + Cardinality(DOMAIN removedCnt)

\* The place of a chunk of the queue among all chunks enqueued so far.
Ordinal(p) == Cardinality(DOMAIN removedCnt) + p

\* stop_session was called, has returned, and start_session was not called
\* since: only stop_session_call clears the running flag and only
\* start_session_call sets it.
StopReturned == nCalls > 0 /\ ~is_processing_chunks /\ stopPc = "idle"

\* The step in which a stop_session call returns: at once when there is no
\* task to await and no document to update, else from its last suspension.
StopReturnStep ==
    /\ stopPc' = "idle"
    /\ \/ stopPc # "idle"
       \/ nCalls' # nCalls /\ startPc' = "idle"

\* The step of start_session that resets the tracker (lines 99-105).
TrackerResetStep == startPc = "find" /\ startPc' = "insert"

(* ---- C1 ---------------------------------------------------------- *)
\* C1: within a session the cumulative detected set never loses an element:
\* every step other than start_session's reset leaves it a superset of what
\* it was.
C1_DetectedMonotonic ==
    [][~TrackerResetStep =>
         detected_steps_cumulative \subseteq detected_steps_cumulative']_vars

\* Two analyses were processed in one session and the first detection
\* is still there after the second.
C1_Witness ==
    /\ Cardinality(detected_steps_cumulative) >= 2
    /\ Cardinality(DOMAIN analysedCnt) >= 2

(* ---- C2 ---------------------------------------------------------- *)
\* C2: with only process_frame calls since construction (no clean-up by
\* stop_session has emptied a non-empty buffer), the k-th chunk enqueued
\* covers frames (k-1)*(chunk_size-chunk_overlap)+1 .. +chunk_size-1, holds
\* exactly those frames in arrival order, and is enqueued by the call that
\* ingests its last frame; so frames 1..14 give exactly the two chunks
\* [1,7] and [6,12].
C2_ChunkWindows ==
    clearedAt = 0 =>
      /\ \A p \in 1..Len(chunk_queue) :
            LET c == chunk_queue[p]
                first == (Ordinal(p) - 1) * (chunk_size - chunk_overlap) + 1
            IN  /\ c.start_frame = first
                /\ c.end_frame = first + chunk_size - 1
                /\ c.frames = [i \in 1..chunk_size |-> first + i - 1]
      /\ \A k \in 1..(NEnqueued + 1) :
            LET last == (k - 1) * (chunk_size - chunk_overlap) + chunk_size
            IN  (k <= NEnqueued) <=> (last <= frame_count)
      /\ frame_count = 14 => NEnqueued = 2

\* Frames 1..14 were ingested and the two chunks are on the queue.
C2_Witness ==
    /\ clearedAt = 0
    /\ frame_count = 14
    /\ Len(chunk_queue) = 2
    /\ chunk_queue[1].start_frame = 1 /\ chunk_queue[1].end_frame = 7
    /\ chunk_queue[2].start_frame = 6 /\ chunk_queue[2].end_frame = 12

(* ---- C3 ---------------------------------------------------------- *)
\* C3: chunks are processed strictly in enqueue order: no chunk is begun
\* while an earlier one is still being processed (oracle call, tracker
\* update, snapshot, alerts), and no chunk waits on the queue behind one
\* that was already begun.
C3_StrictOrder ==
    /\ \A t1 \in Tasks, t2 \in Tasks : Busy(t1) /\ Busy(t2) => t1 = t2
    /\ \A p \in 1..Len(chunk_queue) : \A e \in DOMAIN analysedCnt :
          e < chunk_queue[p].end_frame

(* ---- C4 ---------------------------------------------------------- *)
\* C4: at most one chunk of the service is in flight against the oracle.
C4_OneOracleCall ==
    Cardinality({t \in Tasks : taskPc[t] = "oracle"}) <= 1

\* One task is inside the oracle call while another live task waits with
\* a chunk ready on the queue.
C4_Witness ==
    \E t1 \in Tasks, t2 \in Tasks :
        /\ taskPc[t1] = "oracle"
        /\ taskPc[t2] = "get"
        /\ chunk_queue # << >>

(* ---- C5 ---------------------------------------------------------- *)
\* C5: there are never two live _process_chunk_queue tasks at once.
C5_OneWorker ==
    Cardinality({t \in Tasks : LiveTask(t)}) <= 1

(* ---- C6 ---------------------------------------------------------- *)
\* C6: process_frame can run to completion in every state, also while a
\* chunk analysis is in flight and whatever the length of the queue.
C6_IngestNeverBlocked ==
    frame_count < MaxFrames => ENABLED process_frame

(* ---- C7 ---------------------------------------------------------- *)
\* C7: every chunk is taken off the queue at most once (by a worker or by
\* stop_session's drain) and given to _analyze_video_chunk at most once.
C7_AtMostOnce ==
    /\ \A e \in DOMAIN removedCnt : removedCnt[e] <= 1
    /\ \A e \in DOMAIN analysedCnt : analysedCnt[e] <= 1

\* One chunk went to a worker and another was removed by the drain, with
\* two worker tasks created.
C7_Witness ==
    /\ \E e \in DOMAIN removedCnt : e \in DOMAIN analysedCnt
    /\ \E e \in DOMAIN removedCnt : e \notin DOMAIN analysedCnt
    /\ Cardinality({t \in Tasks : taskPc[t] # "none"}) >= 2

(* ---- C8 ---------------------------------------------------------- *)
\* C8 as stated: at the moment stop_session returns, the chunk queue and the
\* frame buffer are empty.
C8_EmptyAtReturn ==
    [][StopReturnStep => chunk_queue' = << >> /\ frame_buffer' = << >>]_vars

\* C8 as amended: at the moment stop_session returns, the queue and the
\* buffer hold nothing older than its clean-up: only frames, and chunks of
\* frames, that process_frame ingested after the clean-up; both are empty
\* when no frame arrived while the call was suspended.
C8_NothingOlderThanCleanup ==
    [][StopReturnStep =>
         /\ \A i \in 1..Len(frame_buffer') : frame_buffer'[i] > clearedAt'
         /\ \A p \in 1..Len(chunk_queue') :
               chunk_queue'[p].start_frame > clearedAt'
         /\ frame_count' = clearedAt' =>
               chunk_queue' = << >> /\ frame_buffer' = << >>]_vars

\* stop_session is suspended in the session update, and frames that
\* arrived since its clean-up are in the buffer and on the queue.
C8_Witness ==
    /\ stopPc = "update"
    /\ frame_buffer # << >>
    /\ chunk_queue # << >>
    /\ clearedAt > 0

(* ---- C9 ---------------------------------------------------------- *)
\* C9: after stop_session has returned no alert is persisted and the alert
\* callback is not invoked.
C9_NoAlertAfterStop ==
    [][StopReturned /\ StopReturned' =>
         session_alerts' = session_alerts /\ alerts_sent' = alerts_sent]_vars

(* ---- C10 --------------------------------------------------------- *)
\* C10: once the running flag is false no oracle call is started and the
\* detected set and the step statuses do not change.
C10_NoProcessingWhenStopped ==
    [][~is_processing_chunks =>
         /\ UNCHANGED trackerVars
         /\ \A t \in Tasks : taskPc'[t] = "oracle" => taskPc[t] = "oracle"]_vars

\* The flag is false after a stop, a task that stop_session did not cancel
\* still waits on the queue, and a chunk is there for it to take.
C10_Witness ==
    /\ nCalls > 0
    /\ ~is_processing_chunks
    /\ chunk_queue # << >>
    /\ \E t \in Tasks : taskPc[t] = "get"

(* ---- C11 --------------------------------------------------------- *)
\* The step in which start_session ends for want of the procedure document.
StartMissingStep == startPc = "find" /\ startPc' = "idle"

\* C11: whenever stop_session returns after a started session (and the
\* store did not refuse the update), no worker task is alive any more and
\* the session record is stored with status "completed" and an end time.
C11_StopJoinsAndCompletes ==
    [][StopReturnStep /\ startResult = "ok" /\ ~stop_session_updated(FALSE) =>
         /\ \A t \in Tasks : taskPc'[t] \in {"none", "done"}
         /\ session_doc_id' \in 1..Len(live_sessions')
         /\ live_sessions'[session_doc_id'].status = "completed"
         /\ live_sessions'[session_doc_id'].ended]_vars

(* ---- C12 --------------------------------------------------------- *)
\* Every step index of the procedure is pending and nothing is detected.
AllPending ==
    /\ detected_steps_cumulative = {}
    /\ \A i \in 0..(Len(procedure_steps) - 1) :
          StatusGet(step_status, i) = "pending"

\* The reply names the 0-based index d and says it matches.
Matched(analysis, d) ==
    _parse_detected_step(analysis) = {d} /\ matches_expected(analysis)

\* The step_skipped alerts the reply makes the tracker generate.
SkippedAlerts(analysis) ==
    TrackerUpdate(detected_steps_cumulative, step_status, analysis,
                  Len(procedure_steps)).skipped_alerts

\* C12: with every step pending, a matched reply for index 3 marks steps 0
\* and 1 missed and generates two step_skipped alerts.
C12_SkipDetection ==
    [][\A a \in Analyses :
         AllPending /\ Matched(a, 3) /\ _process_analysis_response(a) =>
           /\ StatusGet(step_status', 0) = "missed"
           /\ StatusGet(step_status', 1) = "missed"
           /\ Len(SkippedAlerts(a)) = 2]_vars

(* ---- C13 --------------------------------------------------------- *)
\* C13: a matched detection of index d marks an earlier index i missed only
\* when d - i > 2; detecting index 2 with every step pending marks nothing
\* missed and generates no step_skipped alert.
C13_NoMissWithinGap ==
    [][/\ \A i \in DOMAIN step_status' :
               (step_status'[i] = "missed"
                  /\ StatusGet(step_status, i) # "missed") =>
                 \A a \in Analyses : _process_analysis_response(a) =>
                     \E d \in _parse_detected_step(a) :
                         matches_expected(a) /\ d - i > 2
       /\ \A a \in Analyses :
               AllPending /\ Matched(a, 2) /\ _process_analysis_response(a) =>
                 /\ \A i \in DOMAIN step_status' : step_status'[i] # "missed"
                 /\ SkippedAlerts(a) = << >>]_vars

\* Index 2 was detected with every step pending, and nothing is missed.
C13_Witness ==
    /\ detected_steps_cumulative = {2}
    /\ step_status[2] = "detected"
    /\ \A i \in DOMAIN step_status : step_status[i] # "missed"

(* ---- C14 --------------------------------------------------------- *)
\* C14: a matched reply for an index already in the detected set leaves the
\* detected set and every status as they are and generates no step_skipped
\* alert.
C14_IdempotentRedetection ==
    [][\A a \in Analyses :
         (/\ matches_expected(a)
          /\ _parse_detected_step(a) # {}
          /\ _parse_detected_step(a) \subseteq detected_steps_cumulative
          /\ _process_analysis_response(a)) =>
           /\ UNCHANGED << detected_steps_cumulative, step_status >>
           /\ SkippedAlerts(a) = << >>]_vars

(* ---- C15 --------------------------------------------------------- *)
\* C15: within a session a status "detected" stays "detected" whatever
\* replies are processed afterwards.
C15_DetectedTerminal ==
    [][\A i \in DOMAIN step_status :
         step_status[i] = "detected" =>
           i \in DOMAIN step_status' /\ step_status'[i] = "detected"]_vars

\* Index 1 is detected, and a reply for index 4, which marks what lies more
\* than 2 behind it as missed, has been processed too.
C15_Witness ==
    /\ step_status[1] = "detected"
    /\ 4 \in detected_steps_cumulative
    /\ step_status[0] = "missed"

(* ---- C16 --------------------------------------------------------- *)
\* One session with one worker task: start_session was called once and
\* stop_session never.
OneSession ==
    /\ nCalls = 1
    /\ startResult = "ok"
    /\ Cardinality({t \in Tasks : taskPc[t] # "none"}) = 1

\* C16: when the encoder or the oracle call raises for a chunk while the
\* session is active, the error is logged for that chunk, nothing of the
\* tracker or the queue is touched beyond the chunk taken, and the worker
\* task is back waiting on the queue for the next chunk.
C16_ChunkFailureIsolated ==
    [][\A t \in Tasks :
         (/\ is_processing_chunks
          /\ \/ oracle_fails(t)
             \/ worker_get_chunk(t, FALSE) /\ Len(procedure_steps) > 0) =>
           /\ taskPc'[t] = "get"
           /\ last_error' = "chunk_analysis_failed"
           /\ is_processing_chunks'
           /\ UNCHANGED trackerVars]_vars

\* The first chunk failed, and the same worker has taken the second chunk
\* off the queue and is analysing it.
C16_Witness ==
    /\ OneSession
    /\ last_error = "chunk_analysis_failed"
    /\ chunk_history = 0
    /\ DOMAIN analysedCnt = {7, 12}
    /\ \E t \in Tasks : taskPc[t] = "oracle" /\ cur[t].chunk = 12

(* ---- C17 --------------------------------------------------------- *)
\* C17: when insert_many raises for a chunk's alerts, the failure is logged
\* and goes no further: the detected set and the statuses stay as the
\* chunk's update left them, and the worker of an active session is back
\* waiting on the queue.
C17_PersistFailureContained ==
    [][\A t \in Tasks : insert_many_returns(t, FALSE) =>
         /\ last_error' = "failed_to_create_alerts"
         /\ UNCHANGED trackerVars
         /\ taskPc'[t] # "cancelling"
         /\ is_processing_chunks => taskPc'[t] = "get"]_vars

\* The alerts of the first chunk could not be stored; its detection is in
\* the tracker and the same worker is analysing the second chunk.
C17_Witness ==
    /\ OneSession
    /\ last_error = "failed_to_create_alerts"
    /\ session_alerts = << >>
    /\ detected_steps_cumulative # {}
    /\ \E t \in Tasks : taskPc[t] = "oracle" /\ cur[t].chunk = 12

(* ---- C18 --------------------------------------------------------- *)
\* C18: when the analysis callback raises, the tracker keeps the chunk's
\* update, the chunk's compliance alerts still go to insert_many (and from
\* there to the alert callback), and without alerts the worker of an
\* active session waits for the next chunk; when the alert callback raises,
\* the stored alerts and the tracker are kept and the worker goes on.
C18_CallbackFailureIsolated ==
    [][\A t \in Tasks :
         /\ analysis_callback_returns(t, FALSE) =>
               /\ UNCHANGED trackerVars
               /\ cur[t].alerts # << >> =>
                     taskPc'[t] = "insert" /\ cur'[t].alerts = cur[t].alerts
               /\ (cur[t].alerts = << >> /\ is_processing_chunks) =>
                     taskPc'[t] = "get"
         /\ insert_many_returns(t, TRUE) =>
               /\ session_alerts' = session_alerts \o cur[t].alerts
               /\ alert_callback => alerts_sent' = alerts_sent + 1
         /\ alert_callback_returns(t, FALSE) =>
               /\ UNCHANGED << trackerVars, session_alerts >>
               /\ is_processing_chunks => taskPc'[t] = "get"]_vars

\* The analysis callback raised for the only chunk analysed so far, and
\* that chunk's alert was stored and handed to the alert callback.
C18_Witness ==
    /\ OneSession
    /\ last_error = "analysis_callback_failed"
    /\ DOMAIN analysedCnt = {7}
    /\ Len(session_alerts) = 1
    /\ alerts_sent = 1

(* ---- C19 --------------------------------------------------------- *)
\* C19: when find_one returns no procedure, start_session ends by raising
\* to its caller and inserts no session record: the live-sessions store
\* and session_doc_id are as they were.
C19_MissingProcedureRaises ==
    [][startPc = "find" /\ startPc' # "find" /\ ~master_procedure' =>
         /\ startPc' = "idle"
         /\ startResult' = "raised"
         /\ UNCHANGED << live_sessions, session_doc_id >>]_vars

\* The first start_session call failed for want of the procedure: nothing
\* is stored and session_doc_id is unset.
C19_Witness ==
    /\ nCalls = 1
    /\ startPc = "idle"
    /\ startResult = "raised"
    /\ ~master_procedure
    /\ live_sessions = << >>
    /\ session_doc_id = 0

(* ---- C20 --------------------------------------------------------- *)
\* C20: when start_session fails for want of the procedure, the session
\* does not start: after the call no worker task is alive and the running
\* flag is false.
C20_FailedStartLeavesNothing ==
    [][StartMissingStep =>
         /\ ~is_processing_chunks'
         /\ \A t \in Tasks : taskPc'[t] \in {"none", "done"}]_vars

(* ---- C21 --------------------------------------------------------- *)
\* The step in which a start_session call returns to its caller with the
\* session document stored.
StartOkStep == startPc = "insert" /\ startPc' = "idle" /\ startResult' = "ok"

\* C21: when start_session returns successfully, every index of the
\* procedure is "pending", the detected set and the per-step detection
\* history are empty, and the worker task of the session is alive.
C21_StartResetsTracker ==
    [][StartOkStep =>
         /\ AllPending'
         /\ step_detection_history' = << >>
         /\ chunk_task' \in Tasks
         /\ taskPc'[chunk_task'] \notin {"none", "done"}]_vars

(* ---- C22 --------------------------------------------------------- *)
\* C22: the current_step_index of the analysis_data built for a reply is
\* the lowest index of the procedure that is not in the detected set as it
\* is when the data is built, or the last index when every step is in it.
C22_SnapshotIndex ==
    \A t \in Tasks :
      cur[t].snapshot # NoSnapshot =>
        LET n == Len(procedure_steps)
            idx == cur[t].snapshot.current_step_index
            free == {i \in 0..(n - 1) : i \notin detected_steps_cumulative}
        IN  IF free = {} THEN idx = n - 1
            ELSE idx \in free /\ \A i \in free : idx <= i

\* Steps 0 and 2 are detected and the data built last shows step 1.
C22_Witness ==
    /\ detected_steps_cumulative = {0, 2}
    /\ cur[chunk_task].snapshot.current_step_index = 1

\* Every step is detected and the data built last shows the last step.
C22_WitnessAll ==
    /\ detected_steps_cumulative = 0..(Len(procedure_steps) - 1)
    /\ cur[chunk_task].snapshot.current_step_index = Len(procedure_steps) - 1

(* ---- C23 --------------------------------------------------------- *)
\* C23: whenever the oracle call of a chunk returns while the session is
\* active and an analysis callback is stored, the callback is called for
\* that chunk, with analysis_data whose frame_count is the chunk's
\* end_frame, whatever step and match flag the reply carries.
C23_SnapshotPerChunk ==
    [][\A t \in Tasks :
         taskPc[t] = "oracle" /\ is_processing_chunks /\ analysis_callback =>
           \A a \in Analyses : oracle_returns(t, a) =>
               /\ taskPc'[t] = "callback"
               /\ cur'[t].snapshot.frame_count = cur[t].chunk]_vars

(* ---- C24 --------------------------------------------------------- *)
\* The four labelled lines of the reply of the claim.
ExampleLines ==
    << << "Detected Step:", " ", "4" >>,
       << "Step Progress:", " ", "completed" >>,
       << "Completion Evidence:", " ", "suture", " ", "tied" >>,
       << "Matches Expected:", " ", "yes" >> >>

\* The replies that carry exactly these four lines, in any order.
ExampleTexts ==
    {JoinLines([k \in 1..4 |-> ExampleLines[f[k]]]) :
        f \in Permutations(1..4)}

\* C24: a reply carrying the lines "Detected Step: 4", "Step Progress:
\* completed", "Completion Evidence: suture tied" and "Matches Expected:
\* yes" parses to index 3, progress "completed", evidence "suture tied" and
\* match true; a reply without the label "Detected Step" parses to no
\* detected index.
C24_ParserRoundTrip ==
    \A p \in parsed_fields :
        /\ response_text \in ExampleTexts =>
              /\ p.detected_step_index = {3}
              /\ p.step_progress = {"completed"}
              /\ p.completion_evidence = {<< "suture", " ", "tied" >>}
              /\ p.matches_expected
        /\ (\A i \in 1..Len(response_text) :
               Lower(response_text[i]) # "detected step:") =>
              p.detected_step_index = {}

\* The reply of the claim, its lines in the order of the prompt's format,
\* has been parsed.
C24_Witness ==
    /\ response_text = JoinLines(ExampleLines)
    /\ \E p \in parsed_fields : p.detected_step_index = {3}

\* A reply of two lines, neither with the label, has been parsed.
C24_WitnessNoLabel ==
    /\ response_text = << "Matches Expected:", " ", "yes", "\n",
                          "Step Progress:", " ", "completed" >>
    /\ \E p \in parsed_fields : p.detected_step_index = {}

(* ---- C25 --------------------------------------------------------- *)
\* The value of the first "Completion Evidence" field of a reply: what
\* stands on the label's line after the label, trimmed.
EvidenceValue(text) ==
    LET i == SetMin({j \in 1..Len(text) :
                       Lower(text[j]) = "completion evidence:"})
    IN  Strip(SubSeq(text, i + 1, LineEnd(text, i + 1) - 1))

\* C25: a "Completion Evidence" value that is empty or, trimmed and lower-
\* cased, one of none, n/a, - and null parses to no evidence; any other
\* value parses to its trimmed text.
C25_PlaceholderEvidence ==
    \A p \in parsed_fields :
        (\E j \in 1..Len(response_text) :
            Lower(response_text[j]) = "completion evidence:") =>
          LET value == EvidenceValue(response_text)
          IN  p.completion_evidence =
                IF value = << >>
                     \/ (Len(value) = 1 /\ Lower(value[1]) \in
                            {"none", "n/a", "-", "null"})
                THEN {} ELSE {value}

(* ---- C26 --------------------------------------------------------- *)
\* The indices of the procedure that the step takes from "pending" to
\* "missed".
NewlyMissed ==
    {i \in 0..(Len(procedure_steps) - 1) :
        StatusGet(step_status, i) = "pending"
          /\ StatusGet(step_status', i) = "missed"}

\* C26: every index that goes from "pending" to "missed" has a
\* step_skipped alert generated for it by the reply that marks it.
C26_MissedStepAlerted ==
    [][NewlyMissed # {} =>
         \A a \in Analyses : _process_analysis_response(a) =>
             Len(SkippedAlerts(a)) >= Cardinality(NewlyMissed)]_vars

(* ---- C27 --------------------------------------------------------- *)
\* The indices that processing reply a in the current state marks missed.
MarkedBy(a) ==
    LET upd == TrackerUpdate(detected_steps_cumulative, step_status, a,
                             Len(procedure_steps))
    IN  {i \in DOMAIN upd.status :
           upd.status[i] = "missed" /\ StatusGet(step_status, i) # "missed"}

\* C27: a status becomes "missed" only from "pending" and only for an index
\* outside the detected set, and a reply generates step_skipped alerts for
\* no more indices than it marks; as a marked index is never pending again
\* within the session, no index is marked or alerted twice.
C27_NoDuplicateSkip ==
    /\ [][\A i \in DOMAIN step_status' :
            (step_status'[i] = "missed"
               /\ StatusGet(step_status, i) # "missed") =>
              /\ StatusGet(step_status, i) = "pending"
              /\ i \notin detected_steps_cumulative]_vars
    /\ [](\A a \in Analyses :
            Len(SkippedAlerts(a)) <= Cardinality(MarkedBy(a)))

\* Index 3 was detected twice and index 0 is missed: the first detection
\* marked it at the latest, the second found it marked.
C27_Witness ==
    /\ detected_steps_cumulative = {3}
    /\ step_detection_history[3] = 2
    /\ step_status[0] = "missed"

(* ---- C28 --------------------------------------------------------- *)
\* C28: a matched reply for an index whose status is "missed" makes the
\* status "detected" and puts the index into the detected set.
C28_MissedThenDetected ==
    [][\A i \in DOMAIN step_status :
         step_status[i] = "missed" =>
           \A a \in Analyses :
               Matched(a, i) /\ _process_analysis_response(a) =>
                 /\ step_status'[i] = "detected"
                 /\ i \in detected_steps_cumulative']_vars

\* Index 3 was detected while index 0 was pending, which marked index 0
\* missed and raised at line 503; index 0 was detected afterwards.
C28_Witness ==
    /\ detected_steps_cumulative = {0, 3}
    /\ step_status[0] = "detected"
    /\ step_status[3] = "detected"
    /\ step_detection_history[3] = 1
    /\ last_error = "analysis_response_processing_failed"

(* ---- C29 --------------------------------------------------------- *)
\* C29: a reply that names no step, or that does not say it matches,
\* leaves the detected set, every status and the detection history as they
\* are and generates no step_skipped alert.
C29_UnmatchedChangesNothing ==
    /\ [][~(UNCHANGED trackerVars) =>
            \A a \in Analyses : _process_analysis_response(a) =>
                a.detected_step # {} /\ a.matches_yes]_vars
    /\ [](\A a \in Analyses :
            a.detected_step = {} \/ ~a.matches_yes =>
                SkippedAlerts(a) = << >>)

\* A reply was processed, its analysis_data was built, and the tracker is
\* as start_session left it.
C29_Witness ==
    /\ AllPending
    /\ step_detection_history = << >>
    /\ cur[chunk_task].snapshot # NoSnapshot

(* ---- C30 --------------------------------------------------------- *)
\* C30: when the encoding or the oracle call of a chunk fails, the chunk is
\* dropped: the detected set, the statuses, the detection history and the
\* chunk history stay as they are, nothing is stored or sent as an alert,
\* and the task does not go on to the analysis callback.
C30_FailedChunkDropped ==
    [][\A t \in Tasks :
         (\/ taskPc[t] = "oracle" /\ oracle_fails(t)
          \/ /\ taskPc[t] = "get"
             /\ chunk_queue # << >>
             /\ is_processing_chunks
             /\ Len(procedure_steps) > 0
             /\ worker_get_chunk(t, FALSE)) =>
           /\ UNCHANGED << trackerVars, chunk_history, session_alerts,
                           alerts_sent >>
           /\ taskPc'[t] \in {"get", "done"}
           /\ cur'[t] = Idle]_vars

\* The only chunk analysed so far failed: the tracker and both histories
\* are as start_session left them and no alert was stored or sent.
C30_Witness ==
    /\ OneSession
    /\ last_error = "chunk_analysis_failed"
    /\ DOMAIN analysedCnt = {7}
    /\ chunk_history = 0
    /\ AllPending
    /\ step_detection_history = << >>
    /\ session_alerts = << >>
    /\ alerts_sent = 0
    /\ \E t \in Tasks : taskPc[t] = "get"

(* ---- C31 --------------------------------------------------------- *)
\* The batch is found in the alert store, in order and in one piece.
Stored(batch) ==
    \E k \in 0..(Len(session_alerts) - Len(batch)) :
        SubSeq(session_alerts, k + 1, k + Len(batch)) = batch

\* C31: a batch of alerts is handed to the alert callback only in the step
\* in which insert_many returns having stored it, a batch whose insert_many
\* raises is never handed to the callback, and while the callback runs its
\* batch is in the alert store.
C31_PersistBeforeBroadcast ==
    /\ [][alerts_sent' # alerts_sent =>
            \E t \in Tasks :
                /\ taskPc[t] = "insert"
                /\ taskPc'[t] = "alert_cb"
                /\ cur[t].alerts # << >>
                /\ session_alerts' = session_alerts \o cur[t].alerts]_vars
    /\ [][\A t \in Tasks :
            taskPc[t] = "insert" /\ session_alerts' = session_alerts =>
                /\ alerts_sent' = alerts_sent
                /\ taskPc'[t] # "alert_cb"]_vars
    /\ [](\A t \in Tasks :
            taskPc[t] = "alert_cb" =>
                cur[t].alerts # << >> /\ Stored(cur[t].alerts))

\* The batch of the first chunk is in the store and its callback is running.
C31_Witness ==
    /\ OneSession
    /\ alerts_sent = 1
    /\ Len(session_alerts) = 1
    /\ \E t \in Tasks : taskPc[t] = "alert_cb" /\ cur[t].chunk = 7

(* ---- C32 --------------------------------------------------------- *)
\* The chunks analysed so far.
NAnalysed == Cardinality(DOMAIN analysedCnt)

\* The last k entries of a list.
LastOf(seq, k) == SubSeq(seq, Len(seq) - k + 1, Len(seq))

\* C32: after every analysed chunk chunk_history holds the replies of the
\* last 10 chunks (of all, while there are fewer) in arrival order; each
\* step's detection history holds at most 3 replies, in arrival order, and
\* a matched reply for a step becomes the last entry of the step's history
\* in front of the most recent earlier ones.
C32_BoundedHistories ==
    /\ [](/\ Len(chunk_log) = chunk_history
          /\ Len(chunk_log) =
                IF NAnalysed > history_limit THEN history_limit
                ELSE NAnalysed
          /\ \A p \in 1..Len(chunk_log) :
                chunk_log[p] = ChunkEnd(NAnalysed - Len(chunk_log) + p)
          /\ \A d \in DOMAIN step_log :
                /\ Len(step_log[d]) <= history_keep
                /\ Len(step_log[d]) = step_detection_history[d]
                /\ \A p, q \in 1..Len(step_log[d]) :
                      p < q => step_log[d][p] < step_log[d][q])
    /\ [][\A d \in DOMAIN step_log' :
            (d \notin DOMAIN step_log \/ step_log'[d] # step_log[d]) =>
              LET old == IF d \in DOMAIN step_log THEN step_log[d] ELSE << >>
                  new == step_log'[d]
                  kept == IF Len(old) + 1 > history_keep
                          THEN history_keep ELSE Len(old) + 1
              IN  /\ Len(new) = kept
                  /\ new[kept] = ChunkEnd(NAnalysed')
                  /\ SubSeq(new, 1, kept - 1) = LastOf(old, kept - 1)]_vars

\* Twelve chunks were analysed: chunk_history holds the replies of the
\* third to the twelfth, and the history of step 1 those of the last three
\* of the five chunks that showed it.
C32_Witness ==
    /\ NAnalysed = 12
    /\ Len(chunk_log) = 10
    /\ chunk_log[1] = ChunkEnd(3)
    /\ 0 \in DOMAIN step_log
    /\ step_log[0] = << ChunkEnd(6), ChunkEnd(9), ChunkEnd(12) >>
    /\ 1 \in DOMAIN step_log
    /\ Len(step_log[1]) = 3

(* ---- C33 --------------------------------------------------------- *)
\* C33: a worker task that waits on the queue while the running flag is
\* false ends, whether or not a chunk arrives, unless the flag is set
\* again first.
C33_StopObservedOnEmptyQueue ==
    \A t \in Tasks :
        (taskPc[t] = "get" /\ ~is_processing_chunks)
            ~> (taskPc[t] = "done" \/ is_processing_chunks)

\* A worker task waits on the empty queue of a service whose running flag
\* is false and to which no frame was ever given.
C33_Witness ==
    /\ ~is_processing_chunks
    /\ chunk_queue = << >>
    /\ frame_count = 0
    /\ \E t \in Tasks : taskPc[t] = "get"

(* ---- C34 --------------------------------------------------------- *)
\* The chunk that ends with frame e is on the queue.
Queued(e) == \E p \in 1..Len(chunk_queue) : chunk_queue[p].end_frame = e

\* C34: every chunk on the queue of an active session is eventually taken
\* off it by the worker and given to _analyze_video_chunk, unless
\* stop_session is called first.
C34_QueuedChunkAnalysed ==
    \A e \in 1..MaxFrames :
        (Queued(e) /\ is_processing_chunks)
            ~> (e \in DOMAIN analysedCnt \/ ~is_processing_chunks)

\* The second chunk is on the queue, behind the first one, which the
\* worker has in its oracle call.
C34_Witness ==
    /\ is_processing_chunks
    /\ Queued(12)
    /\ \E t \in Tasks : taskPc[t] = "oracle" /\ cur[t].chunk = 7

(* ---- C35 --------------------------------------------------------- *)
\* The step the reply names, when it names one.
NamesStep(a, d) == _parse_detected_step(a) = {d}

\* The reply leaves the cursor where it is: it names no step, or the step
\* at the cursor, or a completed step without marking it as repeated.
StaysAtCursor(a) ==
    \/ _parse_detected_step(a) = {}
    \/ NamesStep(a, current_step_index)
    \/ \E d \in 0..LegacySteps :
          NamesStep(a, d) /\ StatusGet(step_status, d) = "completed"
                          /\ ~a.repeated

\* The three conditions of a completion.
AllConfirmed(a) ==
    a.matches_yes /\ a.progress = {"completed"} /\ a.evidence # {}

\* The analysis of the reply completed the step at the cursor.
CompletedAtCursor ==
    /\ current_step_index' = current_step_index + 1
    /\ StatusGet(step_status', current_step_index) = "completed"

\* The cursor or a status changes in the step.
TrackChanged ==
    current_step_index' # current_step_index \/ step_status' # step_status

\* The replies whose analysis the step can be.
RepliesOfStep ==
    {a \in LegacyAnalyses :
        /\ LegacyTrack(current_step_index, step_status, a,
                       procedure_steps).cursor = current_step_index'
        /\ \E store_ok, callback_ok \in BOOLEAN :
              _analyze_current_state(a, store_ok, callback_ok)}

\* C35: the step at the cursor is completed, and the cursor moved past it,
\* only by a reply that stays at the cursor, has the match flag, reports
\* the progress 'completed' and carries evidence; a reply that stays at
\* the cursor and lacks one of the three leaves the cursor and every status
\* as they are.
C35_CompletionGuarded ==
    [][TrackChanged =>
         \A a \in RepliesOfStep :
            /\ StaysAtCursor(a) => AllConfirmed(a) /\ CompletedAtCursor
            /\ CompletedAtCursor => StaysAtCursor(a)]_vars

\* Step 0 was completed with evidence and a later reply jumped ahead of
\* the cursor.
C35_Witness ==
    /\ StatusGet(step_status, 0) = "completed"
    /\ StatusGet(step_status, 1) = "missed"

\* C35 as stated: whenever the named step is not the cursor, or the match
\* flag, the progress 'completed' or the evidence is missing, the cursor
\* and the status of the step at the cursor are unchanged.
C35_AsStated ==
    [][TrackChanged =>
         \A a \in RepliesOfStep :
            ~(NamesStep(a, current_step_index) /\ AllConfirmed(a)) =>
              /\ current_step_index' = current_step_index
              /\ StatusGet(step_status', current_step_index)
                   = StatusGet(step_status, current_step_index)]_vars

(* ---- C36 --------------------------------------------------------- *)
\* C36: every index in the cumulative detected set is an index of the
\* session's procedure, 0..n-1.
C36_DetectedInRange ==
    detected_steps_cumulative \subseteq 0..(Len(procedure_steps) - 1)

(* ---- C37 --------------------------------------------------------- *)
\* C37: an index is in the cumulative detected set exactly when the status
\* map holds "detected" for it.
C37_DetectedIffStatus ==
    \A i \in DOMAIN step_status \cup detected_steps_cumulative :
        i \in detected_steps_cumulative
            <=> StatusGet(step_status, i) = "detected"

(* ---- C38 --------------------------------------------------------- *)
\* Worker task t starts the analysis of a chunk in the step.
AnalysisStarts(t) == taskPc[t] = "get" /\ taskPc'[t] = "oracle"

\* C38: the expected step a chunk is analysed against (the one in the
\* prompt, whose is_critical sets the severity of safety_concern alerts) is
\* the displayed current step, the lowest index not in the detected set
\* when the analysis of the chunk starts.
C38_ExpectedIsDisplayed ==
    [][\A t \in Tasks :
         AnalysisStarts(t) =>
           cur'[t].expected =
             procedure_steps[
               next_undetected_index(detected_steps_cumulative,
                                     Len(procedure_steps)) + 1]]_vars

(* ---- C39 --------------------------------------------------------- *)
\* A stop_session call has returned and no start_session call was made
\* since (every start_session sets the flag).
Stopped ==
    /\ ~is_processing_chunks
    /\ stopPc = "idle"
    /\ startPc = "idle"
    /\ nCalls >= 1

\* C39: a stop_session call made after a stop_session call has returned
\* leaves the flag false, the queue and the buffer empty, the task of
\* chunk_task ended, every task where it is, the tracker as it is and logs
\* no failure; what is left of the call after its await changes none of
\* these.
C39_StopIdempotent ==
    [][/\ Stopped /\ nCalls' # nCalls /\ stop_session_call =>
            /\ ~is_processing_chunks'
            /\ chunk_queue' = << >>
            /\ frame_buffer' = << >>
            /\ chunk_task = 0 \/ taskPc'[chunk_task] = "done"
            /\ UNCHANGED << taskPc, trackerVars, last_error >>
       /\ stopPc = "update" /\ stopPc' = "idle"
            /\ (\E ok \in BOOLEAN : stop_session_updated(ok)) =>
            UNCHANGED << is_processing_chunks, chunk_queue, frame_buffer,
                         taskPc, trackerVars, last_error >>]_vars

\* A second stop_session call, on a session whose document the first call
\* marked as ended, is suspended in update_one.
C39_Witness ==
    /\ stopPc = "update"
    /\ live_sessions[stopDoc].ended
    /\ ~is_processing_chunks

(* ---- C40 --------------------------------------------------------- *)
\* A process_frame call puts a chunk on the queue in the step.
ChunkEnqueued ==
    /\ frame_count' = frame_count + 1
    /\ Len(chunk_queue') = Len(chunk_queue) + 1

\* C40: between process_frame calls the buffer holds fewer than chunk_size
\* frames, and at the return of a call that enqueues a chunk it holds the
\* last chunk_overlap frames of that chunk and nothing else.
C40_BufferBounded ==
    /\ [](Len(frame_buffer) < chunk_size)
    /\ [][ChunkEnqueued =>
            LET chunk == chunk_queue'[Len(chunk_queue')]
            IN  frame_buffer' =
                  SubSeq(chunk.frames, chunk_size - chunk_overlap + 1,
                         chunk_size)]_vars

\* stop_session has cleared the buffer at frame 3, and the call for frame
\* 10 has enqueued the chunk of frames 4..10 and kept frames 9 and 10.
C40_Witness ==
    /\ clearedAt = 3
    /\ frame_count = 10
    /\ frame_buffer = << 9, 10 >>
    /\ Len(chunk_queue) = 1
    /\ chunk_queue[1].frames = << 4, 5, 6, 7, 8, 9, 10 >>
====
